---- MODULE Spec2Model ----
(***************************************************************************)
(* RouterService (packages/ember-routing/lib/services/router.js): the      *)
(* public facade over the router.  The facade methods transitionTo,        *)
(* replaceWith, urlFor and isActive are translated from the source; the    *)
(* helpers of '../utils' and the private router they delegate to are not   *)
(* part of the source file and are modelled from the written               *)
(* specification.                                                          *)
(*                                                                         *)
(* Strings are sequences of one-character strings so that a prefix test    *)
(* can look at the first character.  A call argument is a tagged value:    *)
(* a string, a model identifier or an object (a mapping of own keys).      *)
(***************************************************************************)
EXTENDS Integers, Sequences, FiniteSets, TLC

VARIABLES
    state,              \* routerMicrolib.state: the settled navigational state
    activeTransition,   \* the pending Transition of the router, or NoTransition
    lastOp,             \* the facade method (or engine step) that ran last
    lastArgs,           \* its argument list, as the caller passed it
    argsAfter,          \* the caller's argument objects after the call returned
    retTransition,      \* return value of transitionTo / replaceWith
    retBool,            \* return value of isActive
    retURL,             \* return value of urlFor
    calls               \* the delegate calls made by the last facade call, in order

vars == <<state, activeTransition, lastOp, lastArgs, argsAfter,
          retTransition, retBool, retURL, calls>>

nav == <<state, activeTransition>>

----------------------------------------------------------------------------
(* Bounds of the model *)

\* model identifiers are 1..MaxId
MaxId == 2
\* primitive query-parameter values are 0..MaxVal
MaxVal == 1

----------------------------------------------------------------------------
(* Values *)

Str(s) == [t |-> "str", v |-> s]
Id(n)  == [t |-> "id",  v |-> n]
Obj(o) == [t |-> "obj", v |-> o]

Prim(n) == [k |-> "prim", n |-> n]
\* the reserved "use default" sentinel (Ember.DEFAULT_VALUE)
DEFAULT_VALUE == [k |-> "default", n |-> 0]

EmptyQP == [key \in {} |-> Prim(0)]

\* the routes of the documentation's router map: about, blog, blog.post
RouteA  == <<"a">>
RouteB  == <<"b">>
RouteBP == <<"b", ".", "p">>
Routes  == {RouteA, RouteB, RouteBP}

\* number of dynamic segments of a route, its ancestors' included
DynSegs(routeName) == IF routeName = RouteBP THEN 1 ELSE 0

\* the default value every controller declares for its query parameters
DefaultQPValue == Prim(0)

NoTransition ==
    [kind |-> "none", name |-> "", target |-> <<>>, models |-> <<>>,
     queryParams |-> EmptyQP, fromRouterService |-> FALSE,
     urlMethod |-> "update", _keepDefaultQueryParamValues |-> FALSE]

NoURL == [routeName |-> <<>>, models |-> <<>>, query |-> EmptyQP]

Router == [state |-> state, activeTransition |-> activeTransition]

----------------------------------------------------------------------------
(* '../utils': extractRouteArgs, resemblesURL, shallowEqual *)

\* does the object own the key?
HasOwn(arg, key) == arg.t = "obj" /\ key \in DOMAIN arg.v

\* the last argument is the options hash iff it is a mapping with a
\* queryParams key; it is then removed, and the rest after the route name
\* are the models, in call order
extractRouteArgs(args) ==
    LET last    == args[Len(args)]
        hasOpts == HasOwn(last, "queryParams")
        rest    == IF hasOpts THEN SubSeq(args, 1, Len(args) - 1) ELSE args
    IN  [routeName   |-> rest[1].v,
         models      |-> SubSeq(rest, 2, Len(rest)),
         queryParams |-> IF hasOpts THEN last.v.queryParams ELSE EmptyQP]

\* a string resembles a URL iff it starts with "/" (also "//") or "#"
resemblesURL(arg) ==
    /\ arg.t = "str"
    /\ Len(arg.v) > 0
    /\ arg.v[1] \in {"/", "#"}

\* same set of keys and, key by key, the same value
shallowEqual(a, b) ==
    /\ DOMAIN a = DOMAIN b
    /\ \A key \in DOMAIN a : a[key] = b[key]

----------------------------------------------------------------------------
(* The private router (this._router) and its routerMicrolib *)

Call(fn, str, models, queryParams, flag, extra, list) ==
    [fn |-> fn, str |-> str, models |-> models, queryParams |-> queryParams,
     flag |-> flag, extra |-> extra, list |-> list]

\* _doURLTransition(kind, url) -> Transition: a new pending transition that
\* supersedes the one still pending
_doURLTransition(name, url, R) ==
    LET t == [NoTransition EXCEPT !.kind = "url", !.name = name, !.target = url]
    IN  [ret |-> t, router |-> [R EXCEPT !.activeTransition = t]]

\* _doTransition(routeName, models, queryParams, fromFacade) -> Transition
_doTransition(routeName, models, queryParams, fromRouterService, R) ==
    LET t == [NoTransition EXCEPT !.kind = "name", !.target = routeName,
                                  !.models = models, !.queryParams = queryParams,
                                  !.fromRouterService = fromRouterService]
    IN  [ret |-> t, router |-> [R EXCEPT !.activeTransition = t]]

\* Transition#method(m): sets the URL method on the transition and returns it
method(t, m) == [t EXCEPT !.urlMethod = m]

\* generate(routeName, ...models, options?) -> URL: every supplied query
\* parameter is written, except those whose value is the sentinel
generate(args) ==
    LET e    == extractRouteArgs(args)
        keep == {key \in DOMAIN e.queryParams : e.queryParams[key] # DEFAULT_VALUE}
    IN  [routeName |-> e.routeName, models |-> e.models,
         query |-> [key \in keep |-> e.queryParams[key]]]

\* routeName is the current route or an ancestor of it
IsSelfOrAncestor(routeName, cur) ==
    \/ routeName = cur
    \/ /\ Len(routeName) < Len(cur)
       /\ SubSeq(cur, 1, Len(routeName)) = routeName
       /\ cur[Len(routeName) + 1] = "."

\* isActiveIntent(routeName, models, null): the settled route is routeName or
\* a descendant of it, and the models given equal the settled models of
\* routeName's innermost dynamic segments
isActiveIntent(routeName, models, R) ==
    LET n   == DynSegs(routeName)
        cur == SubSeq(R.state.models, 1, n)
    IN  /\ IsSelfOrAncestor(routeName, R.state.routeName)
        /\ Len(models) <= n
        /\ models = SubSeq(cur, n - Len(models) + 1, n)

\* _prepareQueryParams(routeName, models, queryParams, fromRouterService):
\* fills queryParams, in place, with the current value of every query
\* parameter of the settled state that the caller did not supply; returns
\* nothing.  The operator yields the content of queryParams after the call.
_prepareQueryParams(routeName, models, queryParams, fromRouterService, R) ==
    [key \in DOMAIN queryParams \cup DOMAIN R.state.queryParams |->
        IF key \in DOMAIN queryParams THEN queryParams[key]
        ELSE R.state.queryParams[key]]

----------------------------------------------------------------------------
(* The transition engine: the pending transition settles *)

\* the route a URL resolves to: the URL without its leading "/" or "#"
recognize(url) == SubSeq(url, 2, Len(url))

\* the query parameters of the state a transition settles into: a sentinel
\* value unsets its key; a value equal to the default is kept only when the
\* transition is marked _keepDefaultQueryParamValues
finalQueryParams(t) ==
    LET keep == {key \in DOMAIN t.queryParams :
                    /\ t.queryParams[key] # DEFAULT_VALUE
                    /\ t._keepDefaultQueryParamValues
                         \/ t.queryParams[key] # DefaultQPValue}
    IN  [key \in keep |-> t.queryParams[key]]

\* the state after the pending transition t has run to its end; a
\* transition that cannot be resolved fails and leaves the state as it was
settle(t, st) ==
    IF t.kind = "url"
    THEN IF recognize(t.target) \in Routes /\ DynSegs(recognize(t.target)) = 0
         THEN [routeName |-> recognize(t.target), models |-> <<>>, queryParams |-> EmptyQP]
         ELSE st
    ELSE IF t.target \in Routes /\ Len(t.models) = DynSegs(t.target)
         THEN [routeName |-> t.target, models |-> t.models,
               queryParams |-> finalQueryParams(t)]
         ELSE st

----------------------------------------------------------------------------
(* RouterService: the facade.  Each method is an operator of the argument   *)
(* list and the router R it holds in this._router; it yields the return     *)
(* value, the router afterwards, the delegate calls made, in order, and the *)
(* argument objects as the caller sees them once the call has returned.     *)

NoArgs == <<>>
NoList == <<>>

\* transitionTo with one step changed: the URL branch taken or not, the
\* normalized request e, the mark set on the transition or not
transitionTo_changed(args, R, urlBranch, e, mark) ==
    IF urlBranch
    THEN LET r == _doURLTransition("transitionTo", args[1].v, R)
         IN  [ret    |-> r.ret,
              router |-> r.router,
              calls  |-> << Call("resemblesURL", args[1].v, NoArgs, EmptyQP, FALSE, "", NoList),
                            Call("_doURLTransition", args[1].v, NoArgs, EmptyQP, FALSE,
                                 "transitionTo", NoList) >>,
              args   |-> args]
    ELSE LET r == _doTransition(e.routeName, e.models, e.queryParams, TRUE, R)
             transition == [r.ret EXCEPT !._keepDefaultQueryParamValues = mark]
         IN  [ret    |-> transition,
              router |-> [r.router EXCEPT !.activeTransition = transition],
              calls  |-> << Call("resemblesURL", args[1].v, NoArgs, EmptyQP, FALSE, "", NoList),
                            Call("extractRouteArgs", <<>>, NoArgs, EmptyQP, FALSE, "", args),
                            Call("_doTransition", e.routeName, e.models, e.queryParams,
                                 TRUE, "", NoList) >>,
              args   |-> args]

\* mutant: the URL branch is missing, every call is normalized
transitionTo_noURLBranch(args, R) ==
    transitionTo_changed(args, R, FALSE, extractRouteArgs(args), TRUE)

\* mutant: the transition is returned without the mark
transitionTo_noMark(args, R) ==
    transitionTo_changed(args, R, resemblesURL(args[1]), extractRouteArgs(args), FALSE)

\* mutant: any trailing object is taken for the options hash
transitionTo_popsAnyObject(args, R) ==
    LET last == args[Len(args)]
        e    == IF last.t = "obj"
                THEN [routeName   |-> args[1].v,
                      models      |-> SubSeq(args, 2, Len(args) - 1),
                      queryParams |-> IF HasOwn(last, "queryParams")
                                      THEN last.v.queryParams ELSE EmptyQP]
                ELSE extractRouteArgs(args)
    IN  transitionTo_changed(args, R, resemblesURL(args[1]), e, TRUE)

transitionTo(args, R) ==
    IF resemblesURL(args[1])
    THEN LET r == _doURLTransition("transitionTo", args[1].v, R)
         IN  [ret    |-> r.ret,
              router |-> r.router,
              calls  |-> << Call("resemblesURL", args[1].v, NoArgs, EmptyQP, FALSE, "", NoList),
                            Call("_doURLTransition", args[1].v, NoArgs, EmptyQP, FALSE,
                                 "transitionTo", NoList) >>,
              args   |-> args]
    ELSE LET e == extractRouteArgs(args)
             r == _doTransition(e.routeName, e.models, e.queryParams, TRUE, R)
             \* the transition is the object the router holds as pending
             transition == [r.ret EXCEPT !._keepDefaultQueryParamValues = TRUE]
         IN  [ret    |-> transition,
              router |-> [r.router EXCEPT !.activeTransition = transition],
              calls  |-> << Call("resemblesURL", args[1].v, NoArgs, EmptyQP, FALSE, "", NoList),
                            Call("extractRouteArgs", <<>>, NoArgs, EmptyQP, FALSE, "", args),
                            Call("_doTransition", e.routeName, e.models, e.queryParams,
                                 TRUE, "", NoList) >>,
              args   |-> args]

\* mutant: only the first argument is forwarded
replaceWith_firstOnly(args, R) ==
    LET r == transitionTo(<<args[1]>>, R)
        t == method(r.ret, "replace")
    IN  [r EXCEPT !.ret = t, !.router.activeTransition = t, !.args = args]

replaceWith(args, R) ==
    LET r == transitionTo(args, R)
        t == method(r.ret, "replace")
    IN  [r EXCEPT !.ret = t, !.router.activeTransition = t]

\* mutant: query parameters equal to the default are left out, as the
\* private URL generation does
urlFor_pruneDefaults(args, R) ==
    LET url == generate(args)
        keep == {key \in DOMAIN url.query : url.query[key] # DefaultQPValue}
    IN  [ret    |-> [url EXCEPT !.query = [key \in keep |-> url.query[key]]],
         router |-> R,
         calls  |-> << Call("generate", <<>>, NoArgs, EmptyQP, FALSE, "", args) >>,
         args   |-> args]

urlFor(args, R) ==
    [ret    |-> generate(args),
     router |-> R,
     calls  |-> << Call("generate", <<>>, NoArgs, EmptyQP, FALSE, "", args) >>,
     args   |-> args]

\* isActive with one step changed: the structural check made or not, the
\* query parameters prepared or not, the state S it reads, the prepared
\* query parameters written to the router or not
isActive_changed(args, R, checkIntent, prepare, S, writes) ==
    LET e        == extractRouteArgs(args)
        RS       == [R EXCEPT !.state = S]
        cExtract == Call("extractRouteArgs", <<>>, NoArgs, EmptyQP, FALSE, "", args)
        cIntent  == Call("isActiveIntent", e.routeName, e.models, EmptyQP, FALSE, "null", NoList)
        cPrepare == Call("_prepareQueryParams", e.routeName, e.models, e.queryParams,
                         TRUE, "", NoList)
        hasQueryParams == Cardinality(DOMAIN e.queryParams) > 0
        prepared == IF prepare
                    THEN _prepareQueryParams(e.routeName, e.models, e.queryParams, TRUE, RS)
                    ELSE e.queryParams
    IN  IF checkIntent /\ ~isActiveIntent(e.routeName, e.models, RS)
        THEN [ret |-> FALSE, router |-> R, calls |-> <<cExtract, cIntent>>, args |-> args]
        ELSE IF hasQueryParams
        THEN [ret    |-> shallowEqual(prepared, S.queryParams),
              router |-> IF writes THEN [R EXCEPT !.state.queryParams = prepared] ELSE R,
              calls  |-> IF prepare THEN <<cExtract, cIntent, cPrepare>>
                         ELSE <<cExtract, cIntent>>,
              args   |-> [args EXCEPT ![Len(args)].v.queryParams = prepared]]
        ELSE [ret |-> TRUE, router |-> R, calls |-> <<cExtract, cIntent>>, args |-> args]

\* mutant: the requested query parameters are compared as they were passed
isActive_noPrepare(args, R) == isActive_changed(args, R, TRUE, FALSE, R.state, FALSE)

\* mutant: the structural match is not asked for
isActive_noIntent(args, R) == isActive_changed(args, R, FALSE, TRUE, R.state, FALSE)

\* mutant: the prepared query parameters end up in the router's state
isActive_writesState(args, R) == isActive_changed(args, R, TRUE, TRUE, R.state, TRUE)

\* mutant: with a transition pending, the state it leads to is the one read
isActive_pendingState(args, R) ==
    isActive_changed(args, R, TRUE, TRUE,
                     IF R.activeTransition.kind = "none" THEN R.state
                     ELSE settle(R.activeTransition, R.state), FALSE)

isActive(args, R) ==
    LET e        == extractRouteArgs(args)
        cExtract == Call("extractRouteArgs", <<>>, NoArgs, EmptyQP, FALSE, "", args)
        cIntent  == Call("isActiveIntent", e.routeName, e.models, EmptyQP, FALSE, "null", NoList)
        cPrepare == Call("_prepareQueryParams", e.routeName, e.models, e.queryParams,
                         TRUE, "", NoList)
        hasQueryParams == Cardinality(DOMAIN e.queryParams) > 0
        \* queryParams is the caller's own object: what _prepareQueryParams
        \* writes into it is what shallowEqual reads and what the caller keeps
        prepared == _prepareQueryParams(e.routeName, e.models, e.queryParams, TRUE, R)
    IN  IF ~isActiveIntent(e.routeName, e.models, R)
        THEN [ret |-> FALSE, router |-> R, calls |-> <<cExtract, cIntent>>, args |-> args]
        ELSE IF hasQueryParams
        THEN [ret    |-> shallowEqual(prepared, R.state.queryParams),
              router |-> R,
              calls  |-> <<cExtract, cIntent, cPrepare>>,
              args   |-> [args EXCEPT ![Len(args)].v.queryParams = prepared]]
        ELSE [ret |-> TRUE, router |-> R, calls |-> <<cExtract, cIntent>>, args |-> args]

----------------------------------------------------------------------------
(* Inputs *)

PrimValues == {Prim(n) : n \in 0..MaxVal}

\* no options hash, or an options hash holding one of the maps qps
Options(qps) == {<<>>} \cup {<< Obj([queryParams |-> q]) >> : q \in qps}

\* a model object: a mapping without a queryParams key
ModelObj == Obj([id |-> 1])

ModelLists ==
    {<<>>} \cup {<<Id(i)>> : i \in 1..MaxId} \cup {<<Id(1), ModelObj>>}

\* route name and models of a call
NameLists ==
    {<<Str(RouteA)>>, <<Str(RouteB)>>} \cup {<<Str(RouteBP)>> \o m : m \in ModelLists}

WithOptions(lists, qps) == {l \o o : l \in lists, o \in Options(qps)}

\* calls whose first argument starts with "/" or "#"
URLLists ==
    { << Str(<<"/", "a">>) >>, << Str(<<"#", "b">>) >>,
      << Str(<<"/", "b">>), Id(1), Obj([queryParams |-> [page |-> Prim(1)]]) >> }

\* the argument lists of the dispatch specification
TransitionArgs ==
    URLLists \cup
    WithOptions(NameLists \ {<<Str(RouteB)>>},
                {EmptyQP, [page |-> Prim(1)], [page |-> DEFAULT_VALUE],
                 [page |-> Prim(0), sort |-> Prim(0)]})

UrlForArgs ==
    WithOptions({<<Str(RouteA)>>, <<Str(RouteBP), Id(1), ModelObj>>, << Str(<<"/", "a">>) >>},
                {[page |-> v] : v \in PrimValues \cup {DEFAULT_VALUE}}
                    \cup {[page |-> Prim(1), sort |-> DEFAULT_VALUE]})

FewIsActiveArgs ==
    { <<Str(RouteA)>>, <<Str(RouteBP), Id(1), ModelObj>>,
      <<Str(RouteBP), Id(1), Obj([queryParams |-> [page |-> Prim(1)]])>> }

\* the argument lists of the active-state specification
IsActiveArgs ==
    WithOptions(NameLists \cup { << Str(<<"/", "a">>) >> },
                {EmptyQP, [sort |-> Prim(0)]}
                    \cup {[page |-> v] : v \in PrimValues}
                    \cup {[page |-> v, sort |-> Prim(0)] : v \in PrimValues})

FewTransitionArgs ==
    { << Str(<<"/", "b">>) >> } \cup
    WithOptions({<<Str(RouteA)>>} \cup {<<Str(RouteBP), Id(i)>> : i \in 1..MaxId},
                {[page |-> v] : v \in PrimValues}
                    \cup {[page |-> Prim(1), sort |-> Prim(0)]})

FewReplaceArgs == { <<Str(RouteA)>>, << Str(<<"/", "b">>) >> }

FewUrlForArgs ==
    { <<Str(RouteA)>>, <<Str(RouteBP), Id(1), Obj([queryParams |-> [page |-> Prim(0)]])>> }

----------------------------------------------------------------------------
(* Actions *)

Init ==
    /\ state = [routeName |-> RouteA, models |-> <<>>, queryParams |-> EmptyQP]
    /\ activeTransition = NoTransition
    /\ lastOp = "init"
    /\ lastArgs = <<>>
    /\ argsAfter = <<>>
    /\ retTransition = NoTransition
    /\ retBool = FALSE
    /\ retURL = NoURL
    /\ calls = <<>>

Returned(op, args, r) ==
    /\ state' = r.router.state
    /\ activeTransition' = r.router.activeTransition
    /\ lastOp' = op
    /\ lastArgs' = args
    /\ argsAfter' = r.args
    /\ calls' = r.calls

TransitionTo(inputs) ==
    \E args \in inputs :
        LET r == transitionTo(args, Router)
        IN  /\ Returned("transitionTo", args, r)
            /\ retTransition' = r.ret
            /\ retBool' = FALSE
            /\ retURL' = NoURL

ReplaceWith(inputs) ==
    \E args \in inputs :
        LET r == replaceWith(args, Router)
        IN  /\ Returned("replaceWith", args, r)
            /\ retTransition' = r.ret
            /\ retBool' = FALSE
            /\ retURL' = NoURL

UrlFor(inputs) ==
    \E args \in inputs :
        LET r == urlFor(args, Router)
        IN  /\ Returned("urlFor", args, r)
            /\ retTransition' = NoTransition
            /\ retBool' = FALSE
            /\ retURL' = r.ret

IsActive(inputs) ==
    \E args \in inputs :
        LET r == isActive(args, Router)
        IN  /\ Returned("isActive", args, r)
            /\ retTransition' = NoTransition
            /\ retBool' = r.ret
            /\ retURL' = NoURL

\* the external transition engine runs the pending transition to its end
Settle ==
    /\ activeTransition.kind # "none"
    /\ state' = settle(activeTransition, state)
    /\ activeTransition' = NoTransition
    /\ lastOp' = "settle"
    /\ lastArgs' = <<>>
    /\ argsAfter' = <<>>
    /\ retTransition' = NoTransition
    /\ retBool' = FALSE
    /\ retURL' = NoURL
    /\ calls' = <<>>

\* active-state specification: few transitions, every isActive request
Next ==
    \/ TransitionTo(FewTransitionArgs)
    \/ ReplaceWith(FewReplaceArgs)
    \/ UrlFor(FewUrlForArgs)
    \/ IsActive(IsActiveArgs)
    \/ Settle

Spec == Init /\ [][Next]_vars

\* dispatch specification: every transition and URL request, few isActive
NextDispatch ==
    \/ TransitionTo(TransitionArgs)
    \/ ReplaceWith(TransitionArgs)
    \/ UrlFor(UrlForArgs)
    \/ IsActive(FewIsActiveArgs)
    \/ Settle

SpecDispatch == Init /\ [][NextDispatch]_vars

----------------------------------------------------------------------------
(* Properties *)

\* the positions of the calls of fn among the delegate calls of the last call
CallsOf(fn) == {i \in DOMAIN calls : calls[i].fn = fn}

\* the options hash of an argument list, if its last argument is one
SuppliedQP(args) ==
    IF HasOwn(args[Len(args)], "queryParams")
    THEN args[Len(args)].v.queryParams ELSE EmptyQP

\* C1: transitionTo with a first argument that resembles a URL makes exactly
\* one call _doURLTransition('transitionTo', first), returns its result
\* unchanged and neither normalizes arguments nor calls _doTransition; with
\* any other first argument it makes exactly one call
\* _doTransition(routeName, models, queryParams, true) and never calls
\* _doURLTransition.  The first argument is classified once per call.
C1_Dispatch ==
    lastOp = "transitionTo" =>
        /\ Cardinality(CallsOf("resemblesURL")) = 1
        /\ \A i \in CallsOf("resemblesURL") : calls[i].str = lastArgs[1].v
        /\ IF resemblesURL(lastArgs[1])
           THEN /\ Cardinality(CallsOf("_doURLTransition")) = 1
                /\ \A i \in CallsOf("_doURLTransition") :
                      /\ calls[i].extra = "transitionTo"
                      /\ calls[i].str = lastArgs[1].v
                /\ CallsOf("_doTransition") = {}
                /\ CallsOf("extractRouteArgs") = {}
                /\ retTransition =
                      [NoTransition EXCEPT !.kind = "url", !.name = "transitionTo",
                                           !.target = lastArgs[1].v]
                /\ retTransition = activeTransition
           ELSE /\ Cardinality(CallsOf("_doTransition")) = 1
                /\ \A i \in CallsOf("_doTransition") :
                      /\ calls[i].str = lastArgs[1].v
                      /\ calls[i].flag = TRUE
                /\ CallsOf("_doURLTransition") = {}
                /\ retTransition.kind = "name"

\* C1 witness: a URL call with further arguments went to _doURLTransition
C1_Witness ==
    /\ lastOp = "transitionTo"
    /\ Len(lastArgs) > 1
    /\ lastArgs[1].v[1] = "/"
    /\ CallsOf("_doURLTransition") # {}
    /\ retTransition.kind = "url"

\* C2: replaceWith returns the Transition transitionTo returns for the same
\* arguments from the same router state, with method "replace", after the
\* same delegate calls, in the URL branch and in the route-name branch.
C2_ReplaceWith ==
    [][lastOp' = "replaceWith" =>
          LET r == transitionTo(lastArgs', Router)
          IN  /\ retTransition'.urlMethod = "replace"
              /\ r.ret.urlMethod = "update"
              /\ retTransition' = [r.ret EXCEPT !.urlMethod = "replace"]
              /\ calls' = r.calls
              /\ activeTransition' = retTransition'
              /\ state' = r.router.state]_vars

\* C2 witness: replaceWith took the route-name branch with models and
\* query parameters
C2_Witness ==
    /\ lastOp = "replaceWith"
    /\ retTransition.kind = "name"
    /\ retTransition.urlMethod = "replace"
    /\ retTransition.models # <<>>
    /\ DOMAIN retTransition.queryParams # {}

\* C3 as stated: every Transition transitionTo returns has
\* _keepDefaultQueryParamValues set when transitionTo returns, and the
\* name-based delegate was called with the flag true.
C3_Original ==
    lastOp = "transitionTo" =>
        /\ retTransition._keepDefaultQueryParamValues = TRUE
        /\ \A i \in CallsOf("_doTransition") : calls[i].flag = TRUE

\* C3 as amended: every Transition transitionTo returns for a first argument
\* that does not resemble a URL has _keepDefaultQueryParamValues set when
\* transitionTo returns, and _doTransition was called with the flag true.
C3_KeepDefaults ==
    (lastOp = "transitionTo" /\ ~resemblesURL(lastArgs[1])) =>
        /\ retTransition._keepDefaultQueryParamValues = TRUE
        /\ activeTransition._keepDefaultQueryParamValues = TRUE
        /\ retTransition.fromRouterService = TRUE
        /\ CallsOf("_doTransition") # {}
        /\ \A i \in CallsOf("_doTransition") : calls[i].flag = TRUE

\* C3 witness: a marked transition that carries a default value
C3_Witness ==
    /\ lastOp = "transitionTo"
    /\ retTransition.kind = "name"
    /\ retTransition._keepDefaultQueryParamValues
    /\ "page" \in DOMAIN retTransition.queryParams
    /\ retTransition.queryParams["page"] = DefaultQPValue

\* every requested pair is a pair of the settled query parameters
RequestedPairsMatch(q) ==
    \A key \in DOMAIN q :
        key \in DOMAIN state.queryParams /\ q[key] = state.queryParams[key]

\* C4: with a non-empty queryParams map, isActive is true iff
\* isActiveIntent(routeName, models, null) holds and every requested
\* key/value pair equals the entry of the settled query parameters; keys
\* only the settled state has do not make it false.
C4_QueryParamsMatch ==
    (lastOp = "isActive" /\ DOMAIN SuppliedQP(lastArgs) # {}) =>
        LET e == extractRouteArgs(lastArgs)
        IN  retBool = (/\ isActiveIntent(e.routeName, e.models, Router)
                       /\ RequestedPairsMatch(e.queryParams))

\* C4 witness: active although the settled state has a key that was not
\* requested
C4_Witness ==
    /\ lastOp = "isActive"
    /\ retBool
    /\ DOMAIN SuppliedQP(lastArgs) # {}
    /\ DOMAIN state.queryParams \ DOMAIN SuppliedQP(lastArgs) # {}

\* C5: without an options hash or with an empty queryParams map, isActive
\* equals isActiveIntent(routeName, models, null) and _prepareQueryParams is
\* not called; when the structural match fails isActive is false whatever
\* the query parameters are.
C5_StructuralOnly ==
    lastOp = "isActive" =>
        LET e == extractRouteArgs(lastArgs)
        IN  /\ DOMAIN e.queryParams = {} =>
                  /\ retBool = isActiveIntent(e.routeName, e.models, Router)
                  /\ CallsOf("_prepareQueryParams") = {}
            /\ ~isActiveIntent(e.routeName, e.models, Router) => retBool = FALSE

\* C5 witness: active without requested query parameters while the settled
\* state has some
C5_Witness ==
    /\ lastOp = "isActive"
    /\ retBool
    /\ DOMAIN SuppliedQP(lastArgs) = {}
    /\ DOMAIN state.queryParams # {}

\* C6: isActive and urlFor leave the settled state and the pending
\* transition as they were and call neither _doTransition nor
\* _doURLTransition.
C6_NoSideEffect ==
    [][lastOp' \in {"isActive", "urlFor"} =>
          /\ state' = state
          /\ activeTransition' = activeTransition
          /\ \A i \in DOMAIN calls' :
                calls'[i].fn \notin {"_doTransition", "_doURLTransition"}]_vars

\* C6 witness: isActive prepared query parameters while a transition was
\* pending
C6_Witness ==
    /\ lastOp = "isActive"
    /\ activeTransition.kind # "none"
    /\ CallsOf("_prepareQueryParams") # {}

\* the answer the settled state alone gives
SettledAnswer(args) ==
    LET e == extractRouteArgs(args)
    IN  /\ isActiveIntent(e.routeName, e.models,
                          [state |-> state, activeTransition |-> NoTransition])
        /\ RequestedPairsMatch(e.queryParams)

\* C7: while a transition is pending, isActive answers from the settled
\* state alone, as it would with nothing pending; it does not report the
\* pending target as active.
C7_SettledStateOnly ==
    (lastOp = "isActive" /\ activeTransition.kind # "none") =>
        /\ retBool = SettledAnswer(lastArgs)
        /\ retBool => IsSelfOrAncestor(lastArgs[1].v, state.routeName)

\* C7 witness: not active, though the request matches the state the pending
\* transition leads to
C7_Witness ==
    /\ lastOp = "isActive"
    /\ activeTransition.kind # "none"
    /\ ~retBool
    /\ isActive(lastArgs, [state |-> settle(activeTransition, state),
                           activeTransition |-> NoTransition]).ret

C9_Original ==
    lastOp = "isActive" => argsAfter = lastArgs

\* the models the last call handed to the delegate fn
DelegatedModels(fn) == {calls[i].models : i \in CallsOf(fn)}
DelegatedQP(fn) == {calls[i].queryParams : i \in CallsOf(fn)}

\* C10: in the route-name branch of transitionTo and in isActive the last
\* argument is the options hash iff it has a queryParams key: a trailing
\* mapping without the key is the last model and queryParams is empty, one
\* with the key is removed and its queryParams value is the request's; the
\* other arguments are the models, in call order.
C10_OptionsHash ==
    LET last     == lastArgs[Len(lastArgs)]
        expected == IF HasOwn(last, "queryParams")
                    THEN [models |-> SubSeq(lastArgs, 2, Len(lastArgs) - 1),
                          queryParams |-> last.v.queryParams]
                    ELSE [models |-> SubSeq(lastArgs, 2, Len(lastArgs)),
                          queryParams |-> EmptyQP]
    IN  /\ (lastOp = "transitionTo" /\ ~resemblesURL(lastArgs[1])) =>
              /\ DelegatedModels("_doTransition") = {expected.models}
              /\ DelegatedQP("_doTransition") = {expected.queryParams}
              /\ retTransition.models = expected.models
              /\ retTransition.queryParams = expected.queryParams
        /\ lastOp = "isActive" =>
              /\ DelegatedModels("isActiveIntent") = {expected.models}
              /\ DelegatedQP("_prepareQueryParams") \subseteq {expected.queryParams}
              /\ (CallsOf("_prepareQueryParams") # {} => expected.queryParams # EmptyQP)

\* C10 witness: a trailing mapping without a queryParams key went on as the
\* last of two models
C10_Witness ==
    /\ lastOp = "transitionTo"
    /\ lastArgs[Len(lastArgs)] = ModelObj
    /\ Len(retTransition.models) = 2
    /\ retTransition.models[2] = ModelObj
    /\ retTransition.queryParams = EmptyQP

====
